---- MODULE Spec2Model ----
(***************************************************************************)
(* A model of examples/hello_nas.ipynb: the model space MyModelSpace, the  *)
(* evaluator functions evaluate_model and                                  *)
(* evaluate_model_with_visualization (with train_epoch and test_epoch),    *)
(* and the export of the evaluated model's sample as a dict.               *)
(*                                                                         *)
(* One behaviour is one evaluation of one sampled model.  The experiment   *)
(* orchestrator (NasExperiment.run, the training service, the strategy's   *)
(* deduplication) is a library the notebook calls; none of its code is in  *)
(* the notebook and it is not modelled.                                    *)
(*                                                                         *)
(* Dropout rates are written in hundredths (0.25 is 25).  An accuracy      *)
(* 100. * correct / len(dataset) is kept exactly, as the pair              *)
(* <<100 * correct, len(dataset)>>.                                        *)
(***************************************************************************)
EXTENDS Integers, Sequences, FiniteSets

VARIABLES
    sample,          \* the frozen choice of every label, or None before sampling
    model,           \* the concrete model built from the sample, or None
    has_output_dir,  \* 'NNI_OUTPUT_DIR' in os.environ
    cuda_available,  \* torch.cuda.is_available() in the evaluating process
    entry,           \* the evaluator function that was called, or "none"
    pc,              \* position of the evaluation
    device,          \* evaluate_model's local `device`, or "none"
    model_device,    \* where model.to(device) put the model, or "none"
    batch_devices,   \* the devices batches were moved to by data.to(device)
    epoch,           \* the loop variable of `for epoch in range(3)`, -1 before
    accuracy,        \* evaluate_model's local `accuracy`, or None
    last_test,       \* the value returned by the most recent test_epoch call
    reports,         \* the nni.report_* calls made so far, in order
    train_calls,     \* number of calls of train_epoch
    test_calls,      \* number of calls of test_epoch
    onnx_exported,   \* torch.onnx.export wrote model.onnx
    exception,       \* the call that raised, or "none"
    exported         \* the dicts printed from export_top_models(formatter='dict')

vars == <<sample, model, has_output_dir, cuda_available, entry, pc, device,
          model_device, batch_devices, epoch, accuracy, last_test, reports,
          train_calls, test_calls, onnx_exported, exception, exported>>

None == <<>>

(* Size of the test set of the model: len(test_loader.dataset). *)
TestSetSize == 2

----------------------------------------------------------------------------
(* The model space *)

(* LayerChoice([nn.Conv2d(32, 64, 3, 1), DepthwiseSeparableConv(32, 64)],
   label='conv2'): the candidates, named by what they are. *)
Conv2Candidates == <<"Conv2d", "DepthwiseSeparableConv">>

(* nni.choice('dropout', [0.25, 0.5, 0.75]), in hundredths *)
DropoutCandidates == <<25, 50, 75>>

(* nni.choice('feature', [64, 128, 256]) *)
FeatureCandidates == <<64, 128, 256>>

Range(s) == {s[i] : i \in DOMAIN s}

(* The labels of MyModelSpace and what a sample may fix each to: a
   LayerChoice is sampled as the index of a candidate, a categorical choice
   as one of its values. *)
Labels == {"conv2", "dropout", "feature"}

Choices(label) ==
    CASE label = "conv2"   -> {i - 1 : i \in DOMAIN Conv2Candidates}
      [] label = "dropout" -> Range(DropoutCandidates)
      [] label = "feature" -> Range(FeatureCandidates)

(* Every sample of the space: one value for each label. *)
ModelSpaceSamples == {s \in [Labels -> UNION {Choices(l) : l \in Labels}] :
                         \A l \in Labels : s[l] \in Choices(l)}

(* self.fc1 = MutableLinear(9216, feature) *)
Fc1OutFeatures(s) == s["feature"]

Fc2InFeaturesBase(s) == 128

(* self.fc2 = MutableLinear(feature, 10): the same `feature` as fc1 *)
Fc2InFeatures(s) == s["feature"]

(* MyModelSpace.__init__ with every choice fixed by the sample s. *)
MyModelSpace(s) ==
    [conv2       |-> Conv2Candidates[s["conv2"] + 1],
     dropout1    |-> s["dropout"],
     fc1_out     |-> Fc1OutFeatures(s),
     fc2_in      |-> Fc2InFeatures(s)]

----------------------------------------------------------------------------
(* The evaluator *)

(* for epoch in range(3) *)
NumEpochs == 3

(* The calls of the notebook that are wrapped in a try/except: none. *)
Caught == {}

OnExceptionSwallowed(call, resume) == resume

(* Where the evaluation continues when `call` raises: past the call when a
   handler of the notebook catches it, else out of the evaluator. *)
OnException(call, resume) == IF call \in Caught THEN resume ELSE "raised"

(* device = torch.device('cuda') if torch.cuda.is_available()
            else torch.device('cpu') *)
SelectDevice(available) == IF available THEN "cuda" ELSE "cpu"

(* accuracy = 100. * correct / len(test_loader.dataset) *)
Accuracy(correct) == <<100 * correct, TestSetSize>>

Intermediates == SelectSeq(reports, LAMBDA r : r.kind = "intermediate")

Finals == SelectSeq(reports, LAMBDA r : r.kind = "final")

BestReported ==
    LET vals == {Intermediates[i].value : i \in DOMAIN Intermediates}
    IN  CHOOSE v \in vals : \A w \in vals : w[1] <= v[1]

(* the argument of nni.report_final_result(accuracy) *)
FinalResultValue == accuracy

Init ==
    /\ sample = None /\ model = None
    /\ has_output_dir \in BOOLEAN
    /\ cuda_available \in BOOLEAN
    /\ entry = "none"
    /\ pc = "space"
    /\ device = "none" /\ model_device = "none" /\ batch_devices = {}
    /\ epoch = -1 /\ accuracy = None /\ last_test = None
    /\ reports = <<>>
    /\ train_calls = 0 /\ test_calls = 0
    /\ onnx_exported = FALSE
    /\ exception = "none"
    /\ exported = {}

(* A model is sampled from model_space and instantiated. *)
SampleModel ==
    /\ pc = "space"
    /\ \E s \in ModelSpaceSamples :
          /\ sample' = s
          /\ model' = MyModelSpace(s)
    /\ pc' = "sampled"
    /\ UNCHANGED <<has_output_dir, cuda_available, entry, device, model_device,
                   batch_devices, epoch, accuracy, last_test, reports,
                   train_calls, test_calls, onnx_exported, exception, exported>>

(* evaluate_model(model) is called as the evaluator. *)
CallEvaluateModel ==
    /\ pc = "sampled"
    /\ entry' = "evaluate_model"
    /\ pc' = "setup"
    /\ UNCHANGED <<sample, model, has_output_dir, cuda_available, device,
                   model_device, batch_devices, epoch, accuracy, last_test,
                   reports, train_calls, test_calls, onnx_exported, exception,
                   exported>>

(* evaluate_model_with_visualization(model) is called as the evaluator:
   if 'NNI_OUTPUT_DIR' in os.environ, the export comes first. *)
CallEvaluateModelWithVisualization ==
    /\ pc = "sampled"
    /\ entry' = "evaluate_model_with_visualization"
    /\ pc' = IF has_output_dir THEN "export" ELSE "setup"
    /\ UNCHANGED <<sample, model, has_output_dir, cuda_available, device,
                   model_device, batch_devices, epoch, accuracy, last_test,
                   reports, train_calls, test_calls, onnx_exported, exception,
                   exported>>

(* torch.onnx.export(model, (dummy_input, ), .../'model.onnx') returns or
   raises; evaluate_model(model) is the next statement. *)
OnnxExport ==
    /\ pc = "export"
    /\ \/ /\ onnx_exported' = TRUE
          /\ pc' = "setup"
          /\ UNCHANGED exception
       \/ /\ exception' = "torch.onnx.export"
          /\ pc' = OnException("torch.onnx.export", "setup")
          /\ UNCHANGED onnx_exported
    /\ UNCHANGED <<sample, model, has_output_dir, cuda_available, entry, device,
                   model_device, batch_devices, epoch, accuracy, last_test,
                   reports, train_calls, test_calls, exported>>

(* evaluate_model up to the loop: the device is selected, the model moved
   to it, the optimizer and the loaders built; then the first iteration of
   the loop, if there is one. *)
Setup ==
    /\ pc = "setup"
    /\ device' = SelectDevice(cuda_available)
    /\ model_device' = SelectDevice(cuda_available)
    /\ IF NumEpochs > 0
         THEN epoch' = 0 /\ pc' = "train"
         ELSE epoch' = epoch /\ pc' = "final"
    /\ UNCHANGED <<sample, model, has_output_dir, cuda_available, entry,
                   batch_devices, accuracy, last_test, reports, train_calls,
                   test_calls, onnx_exported, exception, exported>>

(* train_epoch(model, device, train_loader, optimizer, epoch): every batch is
   moved to `device`; the call returns or raises. *)
TrainEpoch ==
    /\ pc = "train"
    /\ train_calls' = train_calls + 1
    /\ batch_devices' = batch_devices \cup {device}
    /\ \/ pc' = "test" /\ UNCHANGED exception
       \/ /\ exception' = "train_epoch"
          /\ pc' = OnException("train_epoch", "test")
    /\ UNCHANGED <<sample, model, has_output_dir, cuda_available, entry, device,
                   model_device, epoch, accuracy, last_test, reports,
                   test_calls, onnx_exported, exported>>

(* accuracy = test_epoch(model, device, test_loader): every batch is moved to
   `device`, `correct` of the len(test_loader.dataset) samples are predicted
   right and the accuracy is returned; or the call raises and `accuracy` is
   not assigned. *)
TestEpoch ==
    /\ pc = "test"
    /\ test_calls' = test_calls + 1
    /\ batch_devices' = batch_devices \cup {device}
    /\ \/ \E correct \in 0..TestSetSize :
             /\ accuracy' = Accuracy(correct)
             /\ last_test' = Accuracy(correct)
             /\ pc' = "report"
             /\ UNCHANGED exception
       \/ /\ exception' = "test_epoch"
          /\ pc' = OnException("test_epoch", "report")
          /\ UNCHANGED <<accuracy, last_test>>
    /\ UNCHANGED <<sample, model, has_output_dir, cuda_available, entry, device,
                   model_device, epoch, reports, train_calls, onnx_exported,
                   exported>>

(* nni.report_intermediate_result(accuracy), the last statement of the loop
   body: the loop goes on with the next epoch of range(3) or ends. *)
ReportIntermediateResult ==
    /\ pc = "report"
    /\ reports' = Append(reports, [kind |-> "intermediate", value |-> accuracy])
    /\ IF epoch + 1 < NumEpochs
         THEN epoch' = epoch + 1 /\ pc' = "train"
         ELSE epoch' = epoch /\ pc' = "final"
    /\ UNCHANGED <<sample, model, has_output_dir, cuda_available, entry, device,
                   model_device, batch_devices, accuracy, last_test,
                   train_calls, test_calls, onnx_exported, exception, exported>>

(* nni.report_final_result(accuracy), the last statement of evaluate_model. *)
ReportFinalResult ==
    /\ pc = "final"
    /\ reports' = Append(reports, [kind |-> "final", value |-> FinalResultValue])
    /\ pc' = "done"
    /\ UNCHANGED <<sample, model, has_output_dir, cuda_available, entry, device,
                   model_device, batch_devices, epoch, accuracy, last_test,
                   train_calls, test_calls, onnx_exported, exception, exported>>

(* The dict of an evaluated model: its sample, label by label. *)
ModelDict(s) == [l \in Labels |-> s[l]]

(* for model_dict in exp.export_top_models(formatter='dict'): print(model_dict),
   for the model whose final result was reported. *)
ExportTopModels ==
    /\ pc = "done"
    /\ exported' = exported \cup {ModelDict(sample)}
    /\ pc' = "exported"
    /\ UNCHANGED <<sample, model, has_output_dir, cuda_available, entry, device,
                   model_device, batch_devices, epoch, accuracy, last_test,
                   reports, train_calls, test_calls, onnx_exported, exception>>

Next ==
    \/ SampleModel
    \/ CallEvaluateModel
    \/ CallEvaluateModelWithVisualization
    \/ OnnxExport
    \/ Setup
    \/ TrainEpoch
    \/ TestEpoch
    \/ ReportIntermediateResult
    \/ ReportFinalResult
    \/ ExportTopModels

Spec == Init /\ [][Next]_vars

----------------------------------------------------------------------------
(* Properties *)

Completed == pc \in {"done", "exported"}

LastReport == reports[Len(reports)]

(* C1: one call of evaluate_model trains the model for exactly 2 epochs:
   when the final result has been reported, train_epoch was called exactly
   2 times and test_epoch exactly 2 times. *)
C1_TrainsTwoEpochs ==
    Completed => train_calls = 2 /\ test_calls = 2

(* C2: nni.report_final_result is called at most once and no report follows
   it; in a complete run of evaluate_model it is called exactly once and its
   value is the accuracy returned by the last test_epoch call, which is the
   value of the last intermediate report. *)
C2_FinalReportIsLastAccuracy ==
    /\ Len(Finals) <= 1
    /\ Len(Finals) = 1 => LastReport.kind = "final"
    /\ Completed =>
          /\ Len(Finals) = 1
          /\ Len(Intermediates) >= 1
          /\ LastReport.value = last_test
          /\ LastReport.value = Intermediates[Len(Intermediates)].value

(* A complete run in which the last accuracy is lower than the first one. *)
C2_Witness ==
    /\ pc = "done"
    /\ Len(reports) > 2
    /\ LastReport.kind = "final"
    /\ LastReport.value[1] < reports[1].value[1]

(* C6: a sampled model fixes exactly one value for each of the labels conv2,
   dropout and feature, each among its candidates; the one feature value is
   fc1's out_features and fc2's in_features; the space holds 2*3*3 = 18
   samples; every exported dict has exactly these keys with such values. *)
C6_SampleFixesEveryLabel ==
    /\ Cardinality(ModelSpaceSamples) = 18
    /\ pc # "space" =>
          /\ DOMAIN sample = {"conv2", "dropout", "feature"}
          /\ sample["conv2"] \in {0, 1}
          /\ sample["dropout"] \in {25, 50, 75}
          /\ sample["feature"] \in {64, 128, 256}
          /\ model.conv2 = Conv2Candidates[sample["conv2"] + 1]
          /\ model.dropout1 = sample["dropout"]
          /\ model.fc1_out = sample["feature"]
          /\ model.fc2_in = sample["feature"]
    /\ \A d \in exported :
          /\ DOMAIN d = {"conv2", "dropout", "feature"}
          /\ d["conv2"] \in {0, 1}
          /\ d["dropout"] \in {25, 50, 75}
          /\ d["feature"] \in {64, 128, 256}

(* The dict of a model with the second conv2 candidate and 256 features has
   been exported. *)
C6_Witness ==
    /\ pc = "exported"
    /\ \E d \in exported : d["conv2"] = 1 /\ d["feature"] = 256
    /\ model.fc2_in = 256

(* C7: when torch.onnx.export, train_epoch or test_epoch raises, the
   exception leaves the evaluator: no later step runs and
   nni.report_final_result is not called. *)
C7_FailurePropagates ==
    exception # "none" =>
        /\ pc = "raised"
        /\ ~ENABLED Next
        /\ Len(Finals) = 0
        /\ exception = "torch.onnx.export" =>
              /\ ~onnx_exported
              /\ device = "none"
              /\ train_calls = 0 /\ test_calls = 0
              /\ reports = <<>>
        /\ exception = "train_epoch" =>
              /\ test_calls = train_calls - 1
              /\ Len(reports) = train_calls - 1
        /\ exception = "test_epoch" =>
              /\ test_calls = train_calls
              /\ Len(reports) = test_calls - 1
              /\ accuracy = IF reports = <<>> THEN None ELSE LastReport.value

(* test_epoch has raised in the second epoch of an evaluation that began
   with a successful export. *)
C7_Witness ==
    /\ exception = "test_epoch"
    /\ onnx_exported
    /\ test_calls = 2
    /\ Len(reports) = 1

====
